---- MODULE Spec2Model ----
(***************************************************************************)
(* Model of the solve endpoint of the backend (routes/solve.py): the       *)
(* per-identity sliding-window rate limiter _rate_limit, the handler       *)
(* solve_equation, and the text sanitizer OCRService._clean_math_text      *)
(* (services/ocr.py) whose output the handler checks for forbidden tokens, *)
(* the dispatch of MathSolverService.solve_generic and the "y" list of     *)
(* build_graph_data (services/solver.py), and the registry of the          *)
(* ConnectionManager (app/websocket/manager.py).                           *)
(*                                                                         *)
(* Time is counted in whole ticks.  A text is a sequence of characters,    *)
(* each character a string; glyphs outside ASCII carry a name ("times" is  *)
(* the multiplication sign, "sqrt_sign" the radical sign, ...).            *)
(***************************************************************************)
EXTENDS Integers, Sequences, FiniteSets, TLC

\* ------------------------------------------------------------------ bounds
\* _MAX_CALLS (30 in routes/solve.py:16), scaled down for model checking.
MAX_CALLS == 2
\* _WINDOW_SECONDS (60.0 in routes/solve.py:17), scaled down, in ticks.
WINDOW_SECONDS == 1
\* The clock stops advancing at MaxTime.
MaxTime == 3
\* Number of request slots that can be in flight at once.
MaxRequests == 2
\* A raw text handed to the sanitizer is made of at most MaxFrags fragments.
MaxFrags == 3
\* A text handed to solve_generic on its own has at most MaxExprLen signs.
MaxExprLen == 4
\* A part of a two-part system handed to solve_generic has at most MaxSides
\* sides, joined by equality signs.
MaxSides == 3
\* The registry of the connection manager holds at most MaxConnections
\* sockets at a time.
MaxConnections == 3
\* Number of grid points of a graph (400 in services/solver.py:101).
MaxSamples == 3

Identities == {"u1", "u2"}
Requests == 1..MaxRequests
\* WebSocket objects and project ids handed to the connection manager.
Sockets == {"w1", "w2"}
ProjectIds == {"p1", "p2"}
\* payload.image_base64: empty, not a decodable image, a decodable image.
Payloads == {"", "undecodable", "image"}

VARIABLES
    now,        \* wall clock, the value time.time() returns
    bucket,     \* _RATE_LIMIT_BUCKET: identity -> list of timestamps
    loop,       \* request whose handler runs on the event loop, 0 if none
    pc,         \* position of each request in solve_equation
    user,       \* str(current_user.id) of each request
    image,      \* payload.image_base64 of each request
    t_now,      \* the 'now' argument of the request's _rate_limit call
    latex,      \* text returned by extract_math_from_image
    confidence, \* confidence returned by extract_math_from_image, a ratio
    solution,   \* first component of the result of solve_generic
    steps,      \* second component of the result of solve_generic
    graph_data, \* result of build_graph_data, "None" if absent
    status,     \* HTTP status the handler ends with, 0 while running
    trace,      \* history: stages the request has executed, in order
    admitted,   \* history: timestamps of all admitted calls per identity
    before,     \* history: the identity's list when the call was made
    seen,       \* history: Len(admitted[user]) when the call was made
    raw,        \* sanitizer: the raw recognizer text
    out,        \* sanitizer: _clean_math_text(raw)
    out2,       \* sanitizer: _clean_math_text(out)
    rejected,   \* sanitizer: verdict of the forbidden-token check on out
    stage,      \* sanitizer: position of the sanitizer run
    conf,       \* sanitizer: _calculate_confidence(raw, out), a ratio
    system_dispatch, \* sanitizer: solve_generic takes the System branch
    resp_conf,  \* sanitizer: confidence field of the response
    solver_expression, \* solver: the argument of solve_generic
    solver_result,     \* solver: what solve_generic returned
    solver_stage,      \* solver: position of the solver run
    ys,                \* sampler: values of the function at the grid points
    graph_y,           \* sampler: the "y" list of the graph data
    sampler_stage,     \* sampler: position of the sampler run
    active_connections, \* manager: project id -> list of sockets
    accepting,         \* manager: connect calls waiting in accept()
    registered,        \* history: registrations not yet removed, per id
    last_call          \* history: the last manager call and its outcome

rateVars == <<bucket, admitted>>
reqVars == <<pc, user, image, t_now, latex, confidence, solution, steps,
             graph_data, status, trace, before, seen>>
sanVars == <<raw, out, out2, rejected, stage, conf, system_dispatch,
             resp_conf>>
solverVars == <<solver_expression, solver_result, solver_stage>>
samplerVars == <<ys, graph_y, sampler_stage>>
managerVars == <<active_connections, accepting, registered, last_call>>
vars == <<now, loop, rateVars, reqVars, sanVars, solverVars, samplerVars,
          managerVars>>


\* ------------------------------------------------------------- characters
Digits == {"0", "1", "2", "3", "4", "5", "6", "7", "8", "9"}
LowerSeq ==
    <<"a", "b", "c", "d", "e", "f", "g", "h", "i", "j", "k", "l", "m", "n",
      "o", "p", "q", "r", "s", "t", "u", "v", "w", "x", "y", "z">>
UpperSeq ==
    <<"A", "B", "C", "D", "E", "F", "G", "H", "I", "J", "K", "L", "M", "N",
      "O", "P", "Q", "R", "S", "T", "U", "V", "W", "X", "Y", "Z">>
MathSignSeq ==
    <<"sqrt_sign", "pi_sign", "integral_sign", "sum_sign", "partial_sign",
      "delta_sign", "nabla_sign">>
Range(s) == {s[i] : i \in DOMAIN s}
\* Characters matched by \s.
Whitespace == {" ", "\t", "\n"}

\* ----------------------------------------------- Python string primitives
\* sub in text
Contains(text, sub) ==
    \E i \in 1..(Len(text) - Len(sub) + 1) :
        SubSeq(text, i, i + Len(sub) - 1) = sub

\* text.replace(old, new): leftmost non-overlapping occurrences, one scan.
RECURSIVE ReplaceFrom(_, _, _, _)
ReplaceFrom(text, old, new, i) ==
    IF i > Len(text) THEN <<>>
    ELSE IF /\ i + Len(old) - 1 <= Len(text)
            /\ SubSeq(text, i, i + Len(old) - 1) = old
         THEN new \o ReplaceFrom(text, old, new, i + Len(old))
         ELSE <<text[i]>> \o ReplaceFrom(text, old, new, i + 1)

Replace(text, old, new) == ReplaceFrom(text, old, new, 1)

\* text.strip()
RECURSIVE Strip(_)
Strip(text) ==
    IF text = <<>> THEN text
    ELSE IF Head(text) \in Whitespace THEN Strip(Tail(text))
    ELSE IF text[Len(text)] \in Whitespace
         THEN Strip(SubSeq(text, 1, Len(text) - 1))
    ELSE text

\* ------------------------------------------ OCRService._clean_math_text
\* re.sub(r'\s+', '', text)
RemoveWhitespace(text) == SelectSeq(text, LAMBDA c : c \notin Whitespace)

\* The dict of replacements, in insertion order.
replacements == <<
    <<<<"x">>, <<"*">>>>,
    <<<<"times">>, <<"*">>>>,
    <<<<"divide">>, <<"/">>>>,
    <<<<"minus_sign">>, <<"-">>>>,
    <<<<"en_dash">>, <<"-">>>>,
    <<<<"=">>, <<"=">>>>,
    <<<<"(">>, <<"(">>>>,
    <<<<")">>, <<")">>>>,
    <<<<"[">>, <<"(">>>>,
    <<<<"]">>, <<")">>>>,
    <<<<"{">>, <<"(">>>>,
    <<<<"}">>, <<")">>>>,
    <<<<"s", "q", "r", "t">>, <<"sqrt_sign">>>>,
    <<<<"p", "i">>, <<"pi_sign">>>>,
    <<<<"i", "n", "t">>, <<"integral_sign">>>>,
    <<<<"s", "u", "m">>, <<"sum_sign">>>>,
    <<<<"p", "a", "r", "t", "i", "a", "l">>, <<"partial_sign">>>>,
    <<<<"d", "e", "l", "t", "a">>, <<"delta_sign">>>>,
    <<<<"n", "a", "b", "l", "a">>, <<"nabla_sign">>>>,
    <<<<"l", "n">>, <<"l", "o", "g">>>>,
    <<<<"l", "o", "g", "1", "0">>, <<"l", "o", "g">>>>,
    <<<<"s", "i", "n">>, <<"s", "i", "n">>>>,
    <<<<"c", "o", "s">>, <<"c", "o", "s">>>>,
    <<<<"t", "a", "n">>, <<"t", "a", "n">>>>,
    <<<<"a", "r", "c", "s", "i", "n">>, <<"a", "s", "i", "n">>>>,
    <<<<"a", "r", "c", "c", "o", "s">>, <<"a", "c", "o", "s">>>>,
    <<<<"a", "r", "c", "t", "a", "n">>, <<"a", "t", "a", "n">>>>
>>

RECURSIVE ApplyReplacements(_, _)
ApplyReplacements(text, k) ==
    IF k > Len(replacements) THEN text
    ELSE ApplyReplacements(
             Replace(text, replacements[k][1], replacements[k][2]), k + 1)

\* The pattern of the final re.sub reads
\*   [^0-9+\-*/=()[]  {}  ^  <math signs, letters>  .  ,]
\* : the bracket expression ends at the first ']', so it is the complement
\* of NonMathSetChars; what follows it is matched literally, with '^' the
\* start-of-string anchor and '.' any character.
NonMathSetChars == Digits \cup {"+", "-", "*", "/", "=", "(", ")", "["}
NonMathLiteralHead == <<"{", "}">>
NonMathLiteralTail == MathSignSeq \o LowerSeq \o UpperSeq
NonMathLiteralEnd == <<",", "]">>
NonMathPatternLen ==
    1 + Len(NonMathLiteralHead) + Len(NonMathLiteralTail) + 1
      + Len(NonMathLiteralEnd)

\* The pattern matches at position i of text (1-based).
NonMathMatchAt(text, i) ==
    LET h == i + 1
        a == h + Len(NonMathLiteralHead)
        d == a + Len(NonMathLiteralTail)
        e == d + 1
    IN  /\ i + NonMathPatternLen - 1 <= Len(text)
        /\ text[i] \notin NonMathSetChars
        /\ SubSeq(text, h, a - 1) = NonMathLiteralHead
        /\ a = 1                        \* '^': at the start of the string
        /\ SubSeq(text, a, d - 1) = NonMathLiteralTail
        /\ text[d] # "\n"               \* '.'
        /\ SubSeq(text, e, e + Len(NonMathLiteralEnd) - 1) = NonMathLiteralEnd

\* re.sub(pattern, '', text)
RECURSIVE RemoveNonMathFrom(_, _)
RemoveNonMathFrom(text, i) ==
    IF i > Len(text) THEN <<>>
    ELSE IF NonMathMatchAt(text, i)
         THEN RemoveNonMathFrom(text, i + NonMathPatternLen)
         ELSE <<text[i]>> \o RemoveNonMathFrom(text, i + 1)

RemoveNonMath(text) == RemoveNonMathFrom(text, 1)

\* Variant: the first substitution, 'x' to '*', is left out.
clean_math_text_from_second(text) ==
    Strip(RemoveNonMath(ApplyReplacements(RemoveWhitespace(text), 2)))

clean_math_text(text) ==
    Strip(RemoveNonMath(ApplyReplacements(RemoveWhitespace(text), 1)))

\* --------------------------------------- OCRService._calculate_confidence
\* The pattern r'[0-9+\-*/=()[]{}^...]' of re.findall: the character class
\* ends at the first ']', and what follows it is a literal "{}", the anchor
\* '^', the seven mathematical signs and a literal ']'.
MathCharSetChars == Digits \cup {"+", "-", "*", "/", "=", "(", ")", "["}
MathCharLiteralHead == <<"{", "}">>
MathCharLiteralTail == MathSignSeq \o <<"]">>
MathCharPatternLen ==
    1 + Len(MathCharLiteralHead) + Len(MathCharLiteralTail)

MathCharMatchAt(text, i) ==
    LET h == i + 1
        a == h + Len(MathCharLiteralHead)
    IN  /\ i + MathCharPatternLen - 1 <= Len(text)
        /\ text[i] \in MathCharSetChars
        /\ SubSeq(text, h, a - 1) = MathCharLiteralHead
        /\ a = 1                        \* '^': at the start of the string
        /\ SubSeq(text, a, a + Len(MathCharLiteralTail) - 1)
               = MathCharLiteralTail

\* len(re.findall(pattern, text)): non-overlapping matches, left to right
RECURSIVE MathCharsFrom(_, _)
MathCharsFrom(text, i) ==
    IF i > Len(text) THEN 0
    ELSE IF MathCharMatchAt(text, i)
         THEN 1 + MathCharsFrom(text, i + MathCharPatternLen)
         ELSE MathCharsFrom(text, i + 1)

Max(a, b) == IF a >= b THEN a ELSE b

\* Variant: the length ratio alone as a percentage, not clamped.
calculate_confidence_length_only(original_text, cleaned_text) ==
    IF cleaned_text = <<>> THEN <<0, 1>>
    ELSE <<100 * Len(cleaned_text), Max(Len(original_text), 1)>>

\* The confidence as the ratio <<numerator, denominator>>:
\* (length_ratio * 0.4 + math_ratio * 0.6) * 100, at most 100.
calculate_confidence(original_text, cleaned_text) ==
    IF cleaned_text = <<>> THEN <<0, 1>>
    ELSE LET lo == Max(Len(original_text), 1)
             lc == Max(Len(cleaned_text), 1)
             math_chars == MathCharsFrom(cleaned_text, 1)
             num == 40 * Len(cleaned_text) * lc + 60 * math_chars * lo
             den == lo * lc
         IN  IF num > 100 * den THEN <<100, 1>> ELSE <<num, den>>

\* ------------------------------- forbidden tokens of solve_equation
forbidden == <<
    <<"_", "_">>,
    <<"i", "m", "p", "o", "r", "t">>,
    <<"e", "x", "e", "c">>,
    <<"l", "a", "m", "b", "d", "a">>
>>

\* Variant: all() in place of any().
HasForbidden_all(text) == \A k \in DOMAIN forbidden : Contains(text, forbidden[k])

\* any(bad in latex for bad in [...])
HasForbidden(text) == \E k \in DOMAIN forbidden : Contains(text, forbidden[k])

\* ------------------------------------------------------------ raw texts
\* Pieces of recognizer output: substitution keys, forbidden tokens, noise.
Fragments == {
    <<"l", "n">>, <<"1", "0">>, <<"1">>, <<"+">>, <<"=">>, <<"x">>,
    <<",">>, <<"[">>, <<"#">>, <<"_">>, <<" ">>,
    <<"e", "x", "e", "c">>,
    <<"i", "m", "p", "o", "r", "t">>,
    <<"l", "a", "m", "b", "d", "a">>
}

\* All texts made of at most n fragments.
RECURSIVE TextsOf(_)
TextsOf(n) ==
    IF n = 0 THEN {<<>>}
    ELSE LET shorter == TextsOf(n - 1)
         IN  shorter \cup {t \o f : t \in shorter, f \in Fragments}

\* Recognizer outputs offered to the endpoint: blank, two forbidden tokens,
\* a harmless text.
RecognizedTexts == {
    <<" ", "\n">>,
    <<"i", "m", "p", "o", "r", "t">>,
    <<"e", "x", "e", "c">>,
    <<"1", "+", "x", "\n">>
}

\* ------------------------------------------------------- sympy (external)
\* What sp.sympify does with a text made of letters, digits, the operators
\* + - * / ^ ** =, parentheses, '[' and the separators ',' ';', in which no
\* name is one that sympy predefines and no "==" or "()" occurs.  sympify
\* evaluates the text as a Python expression over symbols ('^' read as
\* '**'): it returns an expression when the text is well formed, and raises
\* otherwise: on a syntax error, in particular on '=', which is an assignment
\* and not an expression, and on a call of a symbol or a number.
Letters == Range(LowerSeq) \cup Range(UpperSeq)
IsLetter(c) == c \in Letters
IsDigit(c) == c \in Digits

\* End of the run of letters and digits that starts at position i.
RECURSIVE WordEnd(_, _)
WordEnd(t, i) ==
    IF i <= Len(t) /\ (IsLetter(t[i]) \/ IsDigit(t[i]))
    THEN WordEnd(t, i + 1) ELSE i

\* End of the run of digits that starts at position i.
RECURSIVE DigitsEnd(_, _)
DigitsEnd(t, i) ==
    IF i <= Len(t) /\ IsDigit(t[i]) THEN DigitsEnd(t, i + 1) ELSE i

\* A power operator starts at position i; its length.
PowerOpLen(t, i) ==
    IF i <= Len(t) /\ t[i] = "^" THEN 1
    ELSE IF i + 1 <= Len(t) /\ t[i] = "*" /\ t[i + 1] = "*" THEN 2
    ELSE 0

\* Recursive descent: each operator returns the position that follows the
\* phrase starting at position i, or 0 when there is no such phrase.
\*   sum   := term (('+' | '-') term)*
\*   term  := unary (('*' | '/') unary)*
\*   unary := ('+' | '-') unary | power
\*   power := atom [('**' | '^') unary]
\*   atom  := name | number | '(' sum ')'
RECURSIVE ParseSum(_, _), SumRest(_, _), ParseTerm(_, _), TermRest(_, _),
          ParseUnary(_, _), ParsePower(_, _), ParseAtom(_, _)
ParseAtom(t, i) ==
    IF i > Len(t) THEN 0
    ELSE IF IsLetter(t[i]) THEN WordEnd(t, i)
    ELSE IF IsDigit(t[i]) THEN DigitsEnd(t, i)
    ELSE IF t[i] = "("
         THEN LET k == ParseSum(t, i + 1)
              IN  IF k # 0 /\ k <= Len(t) /\ t[k] = ")" THEN k + 1 ELSE 0
    ELSE 0

ParsePower(t, i) ==
    LET j == ParseAtom(t, i)
    IN  IF j = 0 THEN 0
        ELSE IF PowerOpLen(t, j) > 0
             THEN ParseUnary(t, j + PowerOpLen(t, j))
             ELSE j

ParseUnary(t, i) ==
    IF i > Len(t) THEN 0
    ELSE IF t[i] \in {"+", "-"} THEN ParseUnary(t, i + 1)
    ELSE ParsePower(t, i)

TermRest(t, j) ==
    IF j = 0 THEN 0
    ELSE IF j <= Len(t) /\ t[j] \in {"*", "/"} /\ PowerOpLen(t, j) = 0
         THEN TermRest(t, ParseUnary(t, j + 1))
         ELSE j

ParseTerm(t, i) == TermRest(t, ParseUnary(t, i))

SumRest(t, j) ==
    IF j = 0 THEN 0
    ELSE IF j <= Len(t) /\ t[j] \in {"+", "-"}
         THEN SumRest(t, ParseTerm(t, j + 1))
         ELSE j

ParseSum(t, i) == SumRest(t, ParseTerm(t, i))

\* sp.sympify(text) returns (it raises when this is false).
Parses(text) == ParseSum(text, 1) = Len(text) + 1

\* The names of a text, in the order of their first occurrence.
RECURSIVE NamesFrom(_, _)
NamesFrom(t, i) ==
    IF i > Len(t) THEN <<>>
    ELSE IF IsLetter(t[i])
         THEN LET j == WordEnd(t, i)
                  rest == NamesFrom(t, j)
                  name == SubSeq(t, i, j - 1)
              IN  <<name>> \o SelectSeq(rest, LAMBDA n : n # name)
    ELSE IF IsDigit(t[i]) THEN NamesFrom(t, DigitsEnd(t, i))
    ELSE NamesFrom(t, i + 1)

Names(text) == NamesFrom(text, 1)

\* expr.free_symbols of a parsed text: a set.  (The names of the text; a
\* symbol that cancels out, as in "x-x", would not be free.)
free_symbols(text) == Range(Names(text))

\* list(s) for a set s: Python fixes no order for the elements of a set,
\* and the hash of a Symbol depends on the hash seed of the process.
Lists(S) ==
    {l \in [1..Cardinality(S) -> S] : \A a \in S : \E i \in DOMAIN l : l[i] = a}

\* ------------------------------------------ MathSolverService.solve_generic
\* self.x, the symbol x
default_symbol == <<"x">>

\* text.split(sep) for a one-character separator
RECURSIVE Split(_, _)
Split(text, sep) ==
    IF \A i \in DOMAIN text : text[i] # sep THEN <<text>>
    ELSE LET k == CHOOSE i \in DOMAIN text :
                      text[i] = sep /\ \A j \in 1..(i - 1) : text[j] # sep
         IN  <<SubSeq(text, 1, k - 1)>>
               \o Split(SubSeq(text, k + 1, Len(text)), sep)

\* Variant: the exception is for a text with '(' instead of '['.
is_system_paren(expression) ==
    \/ Contains(expression, <<";">>)
    \/ (Contains(expression, <<",">>) /\ ~Contains(expression, <<"(">>))

\* ';' in expression or (',' in expression and '[' not in expression)
is_system(expression) ==
    \/ Contains(expression, <<";">>)
    \/ (Contains(expression, <<",">>) /\ ~Contains(expression, <<"[">>))

\* [p.strip() for p in expression.replace(';', ',').split(',')]
system_parts(expression) ==
    LET pieces == Split(Replace(expression, <<";">>, <<",">>), ",")
    IN  [k \in DOMAIN pieces |-> Strip(pieces[k])]

\* The texts that the list comprehension of the System branch hands to
\* sympify for the part p.
part_sides(p) ==
    IF ~Contains(p, <<"=">>) THEN <<p>>
    ELSE LET sides == Split(p, "=") IN <<sides[1], sides[2]>>

\* Variant: the equation of a part is between its first and last sides.
part_equation_last(p) ==
    IF ~Contains(p, <<"=">>)
    THEN [lhs |-> p, rhs |-> <<"0">>, form |-> "bare"]
    ELSE LET sides == Split(p, "=")
         IN  [lhs |-> sides[1], rhs |-> sides[Len(sides)], form |-> "Eq"]

\* self._sympify(p) if '=' not in p
\*   else sp.Eq(self._sympify(p.split('=')[0]), self._sympify(p.split('=')[1]))
\* A bare expression in the list given to sp.solve stands for expression = 0.
part_equation(p) ==
    IF ~Contains(p, <<"=">>)
    THEN [lhs |-> p, rhs |-> <<"0">>, form |-> "bare"]
    ELSE LET sides == Split(p, "=")
         IN  [lhs |-> sides[1], rhs |-> sides[2], form |-> "Eq"]

\* Variant: the Expression branch compares with one.
expression_equation_one(expression) ==
    [lhs |-> expression, rhs |-> <<"1">>, form |-> "Eq"]

\* eq = sp.Eq(expr, 0)
expression_equation(expression) ==
    [lhs |-> expression, rhs |-> <<"0">>, form |-> "Eq"]

\* eq.free_symbols: the names of both sides; sp.Eq folds an equation
\* between identical sides to the truth value, which has no symbols.
equation_symbols(eq) ==
    IF eq.form = "Eq" /\ eq.lhs = eq.rhs THEN {}
    ELSE free_symbols(eq.lhs) \cup free_symbols(eq.rhs)

\* Variant: no except clause, the exception leaves solve_generic.
solve_error_propagating(branch, parts) ==
    [branch |-> branch, parts |-> parts, eqs |-> <<>>, vars |-> <<>>,
     solve_for |-> <<>>, solution |-> "none", steps |-> "none",
     fault |-> TRUE]

\* except Exception as e: return f"Error: {str(e)}", f"Failed to solve: ..."
solve_error(branch, parts) ==
    [branch |-> branch, parts |-> parts, eqs |-> <<>>, vars |-> <<>>,
     solve_for |-> <<>>, solution |-> "Error", steps |-> "Failed to solve",
     fault |-> FALSE]

\* Variant: the try block returns without having taken a branch.
solve_done_unclassified(branch, parts, eqs, vs, solve_for) ==
    [branch |-> "none", parts |-> parts, eqs |-> eqs, vars |-> vs,
     solve_for |-> solve_for, solution |-> "solved", steps |-> "Solved",
     fault |-> FALSE]

\* A result of the try block.  sp.solve returns on the polynomial
\* equations of these texts (an empty list when there is no solution).
solve_done(branch, parts, eqs, vs, solve_for) ==
    [branch |-> branch, parts |-> parts, eqs |-> eqs, vars |-> vs,
     solve_for |-> solve_for, solution |-> "solved", steps |-> "Solved",
     fault |-> FALSE]

\* What sympify returns for a text that parses: the texts above never give
\* an Equality, which sympify builds only from a call such as Eq(a, b).
sympify_kind(text) == "Expr"

\* The results solve_generic can return for an expression.
solve_generic_results(expression) ==
    IF is_system(expression)
    THEN LET parts == system_parts(expression)
         IN  IF \E k \in DOMAIN parts : \E i \in DOMAIN part_sides(parts[k]) :
                    ~Parses(part_sides(parts[k])[i])
             THEN {solve_error("System", parts)}
             ELSE LET eqs == [k \in DOMAIN parts |-> part_equation(parts[k])]
                      syms == UNION {equation_symbols(eqs[k]) :
                                         k \in DOMAIN eqs}
                  IN  {solve_done("System", parts, eqs, vs, <<>>) :
                           vs \in IF syms = {} THEN {<<default_symbol>>}
                                  ELSE Lists(syms)}
    ELSE IF ~Parses(expression)
         THEN {solve_error("none", <<>>)}
    ELSE LET branch == IF sympify_kind(expression) = "Equality"
                       THEN "Equation" ELSE "Expression"
             eqs == IF branch = "Equation"
                    THEN <<[lhs |-> expression, rhs |-> <<>>,
                            form |-> "Equality"]>>
                    ELSE <<expression_equation(expression)>>
             syms == free_symbols(expression)
         IN  {solve_done(branch, <<>>, eqs, vs,
                         IF vs = <<>> THEN default_symbol ELSE vs[1]) :
                  vs \in Lists(syms)}

\* --------------------------------------- MathSolverService.build_graph_data
\* sympify raises on a text that does not parse; the function lambdify
\* builds raises NameError when called if the expression has a symbol
\* other than x; an expression without symbol gives one number, over which
\* the comprehension cannot iterate.  Samples come back only for an
\* expression in x alone.
build_graph_data_result(expression) ==
    IF ~Parses(expression) THEN "raise"
    ELSE IF free_symbols(expression) = {default_symbol} THEN "samples"
    ELSE "raise"

\* ------------------------------------------------------------ _rate_limit
\* Variant: the window reaches one tick further back.
window_start_late(t) == t - WINDOW_SECONDS - 1

\* window_start = now - _WINDOW_SECONDS
window_start(t) == t - WINDOW_SECONDS

\* Variant: nothing is ever pruned.
purge_keep_all(b, ws) == b

\* Variant: a timestamp exactly at the window start is pruned.
purge_exclusive(b, ws) == SelectSeq(b, LAMBDA t : t > ws)

\* [t for t in bucket if t >= window_start]
purge(b, ws) == SelectSeq(b, LAMBDA t : t >= ws)

\* Variant: the comparison is strict.
over_limit_strict(b) == Len(b) > MAX_CALLS

\* len(bucket) >= _MAX_CALLS
over_limit(b) == Len(b) >= MAX_CALLS

\* Variant: handlers run in parallel and preempt each other at any statement.
runnable_preemptive(r) == TRUE

\* The next statement of request r's handler can run.  The event loop runs
\* one handler at a time: a waiting handler starts when the loop is free,
\* and solve_equation never suspends between its first and its last
\* statement (its only await is on a coroutine that itself never awaits).
runnable(r) == IF pc[r] = "pending" THEN loop = 0 ELSE loop = r

\* Append an executed stage to the request's history.
Logged(r, what) == [trace EXCEPT ![r] = Append(@, what)]

\* ------------------------------------------------------------- init
EndpointInit ==
    /\ now = 0
    /\ bucket = <<>>
    /\ loop = 0
    /\ pc = [r \in Requests |-> "idle"]
    /\ user = [r \in Requests |-> "none"]
    /\ image = [r \in Requests |-> "none"]
    /\ t_now = [r \in Requests |-> 0]
    /\ latex = [r \in Requests |-> <<>>]
    /\ confidence = [r \in Requests |-> <<0, 1>>]
    /\ solution = [r \in Requests |-> "none"]
    /\ steps = [r \in Requests |-> "none"]
    /\ graph_data = [r \in Requests |-> "None"]
    /\ status = [r \in Requests |-> 0]
    /\ trace = [r \in Requests |-> <<>>]
    /\ before = [r \in Requests |-> <<>>]
    /\ seen = [r \in Requests |-> 0]
    /\ admitted = [u \in Identities |-> <<>>]

\* No call of solve_generic outside the endpoint.
SolverOff ==
    /\ solver_expression = <<>>
    /\ solver_result = solve_error("none", <<>>)
    /\ solver_stage = "off"

\* No call of the sanitizer outside the endpoint.
SanitizerOff ==
    /\ raw = <<>>
    /\ out = <<>>
    /\ out2 = <<>>
    /\ rejected = FALSE
    /\ stage = "off"
    /\ conf = <<0, 1>>
    /\ system_dispatch = FALSE
    /\ resp_conf = <<0, 1>>

\* No call of build_graph_data outside the endpoint.
SamplerOff ==
    /\ ys = <<>>
    /\ graph_y = <<>>
    /\ sampler_stage = "off"

\* manager = ConnectionManager(): self.active_connections = {}
ManagerInit ==
    /\ active_connections = <<>>
    /\ accepting = {}
    /\ registered = [p \in ProjectIds |-> 0]
    /\ last_call = <<"none">>

Init ==
    /\ EndpointInit
    /\ SanitizerOff
    /\ SolverOff
    /\ SamplerOff
    /\ ManagerInit

\* ------------------------------------------------------------- actions
\* The clock advances.
Tick ==
    /\ now < MaxTime
    /\ now' = now + 1
    /\ UNCHANGED <<loop, rateVars, reqVars, sanVars, solverVars, samplerVars,
                   managerVars>>

\* A POST /solve/ request arrives and its identity is resolved; the handler
\* is not yet scheduled.
Arrive(r) ==
    /\ pc[r] = "idle"
    /\ \E u \in Identities : user' = [user EXCEPT ![r] = u]
    /\ pc' = [pc EXCEPT ![r] = "pending"]
    /\ UNCHANGED <<now, loop, rateVars, image, t_now, latex, confidence,
                   solution, steps, graph_data, status, trace, before, seen,
                   sanVars, solverVars, samplerVars, managerVars>>

\* solve_equation is entered with the request's payload: time.time() is
\* read and _rate_limit is called.
solve_equation_begin(r) ==
    /\ pc[r] = "pending"
    /\ runnable(r)
    /\ loop' = r
    /\ \E img \in Payloads : image' = [image EXCEPT ![r] = img]
    /\ t_now' = [t_now EXCEPT ![r] = now]
    /\ before' = [before EXCEPT ![r] =
                      IF user[r] \in DOMAIN bucket
                      THEN <<bucket[user[r]]>> ELSE <<>>]
    /\ seen' = [seen EXCEPT ![r] = Len(admitted[user[r]])]
    /\ pc' = [pc EXCEPT ![r] = "rl_setdefault"]
    /\ UNCHANGED <<now, rateVars, user, latex, confidence, solution, steps,
                   graph_data, status, trace, sanVars, solverVars,
                   samplerVars, managerVars>>

\* bucket = _RATE_LIMIT_BUCKET.setdefault(user_identifier, [])
rate_limit_setdefault(r) ==
    /\ pc[r] = "rl_setdefault"
    /\ runnable(r)
    /\ bucket' = IF user[r] \in DOMAIN bucket THEN bucket
                 ELSE [u \in DOMAIN bucket \cup {user[r]} |->
                          IF u = user[r] THEN <<>> ELSE bucket[u]]
    /\ pc' = [pc EXCEPT ![r] = "rl_purge"]
    /\ UNCHANGED <<now, loop, admitted, user, image, t_now, latex, confidence,
                   solution, steps, graph_data, status, trace, before, seen,
                   sanVars, solverVars, samplerVars, managerVars>>

\* Variant: the call prunes the list of every identity.
rate_limit_purge_global(r) ==
    /\ pc[r] = "rl_purge"
    /\ runnable(r)
    /\ bucket' = [u \in DOMAIN bucket |->
                      purge(bucket[u], window_start(t_now[r]))]
    /\ pc' = [pc EXCEPT ![r] = "rl_check"]
    /\ UNCHANGED <<now, loop, admitted, user, image, t_now, latex, confidence,
                   solution, steps, graph_data, status, trace, before, seen,
                   sanVars, solverVars, samplerVars, managerVars>>

\* bucket[:] = [t for t in bucket if t >= window_start]
rate_limit_purge(r) ==
    /\ pc[r] = "rl_purge"
    /\ runnable(r)
    /\ bucket' = [bucket EXCEPT ![user[r]] = purge(@, window_start(t_now[r]))]
    /\ pc' = [pc EXCEPT ![r] = "rl_check"]
    /\ UNCHANGED <<now, loop, admitted, user, image, t_now, latex, confidence,
                   solution, steps, graph_data, status, trace, before, seen,
                   sanVars, solverVars, samplerVars, managerVars>>

\* Variant: the attempt is recorded before the limit is tested.
rate_limit_check_recording(r) ==
    /\ pc[r] = "rl_check"
    /\ runnable(r)
    /\ IF over_limit(bucket[user[r]])
       THEN /\ status' = [status EXCEPT ![r] = 429]
            /\ trace' = Logged(r, "denied")
            /\ bucket' = [bucket EXCEPT ![user[r]] = Append(@, t_now[r])]
            /\ pc' = [pc EXCEPT ![r] = "done"]
       ELSE /\ status' = status
            /\ trace' = Logged(r, "admitted")
            /\ bucket' = bucket
            /\ pc' = [pc EXCEPT ![r] = "rl_append"]
    /\ UNCHANGED <<now, loop, admitted, user, image, t_now, latex, confidence,
                   solution, steps, graph_data, before, seen, sanVars,
                   solverVars, samplerVars, managerVars>>

\* Variant: the denial is noted but the handler carries on.
rate_limit_check_continuing(r) ==
    /\ pc[r] = "rl_check"
    /\ runnable(r)
    /\ IF over_limit(bucket[user[r]])
       THEN /\ status' = [status EXCEPT ![r] = 429]
            /\ trace' = Logged(r, "denied")
            /\ pc' = [pc EXCEPT ![r] = "check_image"]
       ELSE /\ status' = status
            /\ trace' = Logged(r, "admitted")
            /\ pc' = [pc EXCEPT ![r] = "rl_append"]
    /\ UNCHANGED <<now, loop, rateVars, user, image, t_now, latex, confidence,
                   solution, steps, graph_data, before, seen, sanVars,
                   solverVars, samplerVars, managerVars>>

\* if len(bucket) >= _MAX_CALLS: raise HTTPException(429)
rate_limit_check(r) ==
    /\ pc[r] = "rl_check"
    /\ runnable(r)
    /\ IF over_limit(bucket[user[r]])
       THEN /\ status' = [status EXCEPT ![r] = 429]
            /\ trace' = Logged(r, "denied")
            /\ pc' = [pc EXCEPT ![r] = "done"]
       ELSE /\ status' = status
            /\ trace' = Logged(r, "admitted")
            /\ pc' = [pc EXCEPT ![r] = "rl_append"]
    /\ UNCHANGED <<now, loop, rateVars, user, image, t_now, latex, confidence,
                   solution, steps, graph_data, before, seen, sanVars,
                   solverVars, samplerVars, managerVars>>

\* bucket.append(now)
rate_limit_append(r) ==
    /\ pc[r] = "rl_append"
    /\ runnable(r)
    /\ bucket' = [bucket EXCEPT ![user[r]] = Append(@, t_now[r])]
    /\ admitted' = [admitted EXCEPT ![user[r]] = Append(@, t_now[r])]
    /\ pc' = [pc EXCEPT ![r] = "check_image"]
    /\ UNCHANGED <<now, loop, user, image, t_now, latex, confidence, solution,
                   steps, graph_data, status, trace, before, seen, sanVars,
                   solverVars, samplerVars, managerVars>>

\* if not payload.image_base64: raise HTTPException(400)
check_image(r) ==
    /\ pc[r] = "check_image"
    /\ runnable(r)
    /\ IF image[r] = ""
       THEN /\ status' = [status EXCEPT ![r] = 400]
            /\ pc' = [pc EXCEPT ![r] = "done"]
       ELSE /\ status' = status
            /\ pc' = [pc EXCEPT ![r] = "ocr"]
    /\ UNCHANGED <<now, loop, rateVars, user, image, t_now, latex, confidence,
                   solution, steps, graph_data, trace, before, seen, sanVars,
                   solverVars, samplerVars, managerVars>>

\* latex, confidence = await ocr_service.extract_math_from_image(...)
\* A payload that does not decode raises inside the try block, and the
\* except clause returns the empty text; otherwise the recognizer's text
\* is cleaned by _clean_math_text.
extract_math_from_image(r) ==
    /\ pc[r] = "ocr"
    /\ runnable(r)
    /\ IF image[r] = "undecodable"
       THEN /\ latex' = [latex EXCEPT ![r] = <<>>]
            /\ confidence' = [confidence EXCEPT ![r] = <<0, 1>>]
       ELSE \E text \in RecognizedTexts :
                LET cleaned_text == clean_math_text(text)
                IN  /\ latex' = [latex EXCEPT ![r] = cleaned_text]
                    /\ confidence' = [confidence EXCEPT ![r] =
                           calculate_confidence(text, cleaned_text)]
    /\ trace' = Logged(r, "extract_math_from_image")
    /\ pc' = [pc EXCEPT ![r] = "check_latex"]
    /\ UNCHANGED <<now, loop, rateVars, user, image, t_now, solution, steps,
                   graph_data, status, before, seen, sanVars, solverVars,
                   samplerVars, managerVars>>

\* Variant: an unreadable image gives the admission slot back.
check_latex_refunding(r) ==
    /\ pc[r] = "check_latex"
    /\ runnable(r)
    /\ IF latex[r] = <<>>
       THEN /\ status' = [status EXCEPT ![r] = 422]
            /\ bucket' = [bucket EXCEPT ![user[r]] =
                              SubSeq(@, 1, Len(@) - 1)]
            /\ pc' = [pc EXCEPT ![r] = "done"]
       ELSE /\ status' = status
            /\ bucket' = bucket
            /\ pc' = [pc EXCEPT ![r] = "check_forbidden"]
    /\ UNCHANGED <<now, loop, admitted, user, image, t_now, latex, confidence,
                   solution, steps, graph_data, trace, before, seen, sanVars,
                   solverVars, samplerVars, managerVars>>

\* if not latex: raise HTTPException(422)
check_latex(r) ==
    /\ pc[r] = "check_latex"
    /\ runnable(r)
    /\ IF latex[r] = <<>>
       THEN /\ status' = [status EXCEPT ![r] = 422]
            /\ pc' = [pc EXCEPT ![r] = "done"]
       ELSE /\ status' = status
            /\ pc' = [pc EXCEPT ![r] = "check_forbidden"]
    /\ UNCHANGED <<now, loop, rateVars, user, image, t_now, latex, confidence,
                   solution, steps, graph_data, trace, before, seen, sanVars,
                   solverVars, samplerVars, managerVars>>

\* if any(bad in latex for bad in [...]): raise HTTPException(400)
check_forbidden(r) ==
    /\ pc[r] = "check_forbidden"
    /\ runnable(r)
    /\ IF HasForbidden(latex[r])
       THEN /\ status' = [status EXCEPT ![r] = 400]
            /\ trace' = Logged(r, "forbidden_rejected")
            /\ pc' = [pc EXCEPT ![r] = "done"]
       ELSE /\ status' = status
            /\ trace' = Logged(r, "forbidden_passed")
            /\ pc' = [pc EXCEPT ![r] = "solve"]
    /\ UNCHANGED <<now, loop, rateVars, user, image, t_now, latex, confidence,
                   solution, steps, graph_data, before, seen, sanVars,
                   solverVars, samplerVars, managerVars>>

\* try: solution_latex, steps = solver_service.solve_generic(latex)
\* except Exception as exc: raise HTTPException(422)
\* solve_generic catches every Exception of the algebra engine itself and
\* returns the pair ("Error: ...", "Failed to solve: ..."): the handler's
\* except clause runs only if an exception leaves solve_generic.
solve_generic(r) ==
    /\ pc[r] = "solve"
    /\ runnable(r)
    /\ \E res \in solve_generic_results(latex[r]) :
           IF res.fault
           THEN /\ status' = [status EXCEPT ![r] = 422]
                /\ solution' = solution
                /\ steps' = steps
                /\ trace' = Logged(r, "solve_generic_raised")
                /\ pc' = [pc EXCEPT ![r] = "done"]
           ELSE /\ status' = status
                /\ solution' = [solution EXCEPT ![r] = res.solution]
                /\ steps' = [steps EXCEPT ![r] = res.steps]
                /\ trace' = Logged(r, "solve_generic")
                /\ pc' = [pc EXCEPT ![r] = "graph"]
    /\ UNCHANGED <<now, loop, rateVars, user, image, t_now, latex, confidence,
                   graph_data, before, seen, sanVars, solverVars, samplerVars,
                   managerVars>>

\* Variant: an exception of build_graph_data ends the request.
build_graph_data_failing(r) ==
    /\ pc[r] = "graph"
    /\ runnable(r)
    /\ IF build_graph_data_result(latex[r]) = "raise"
       THEN /\ graph_data' = graph_data
            /\ status' = [status EXCEPT ![r] = 500]
            /\ pc' = [pc EXCEPT ![r] = "done"]
       ELSE /\ graph_data' = [graph_data EXCEPT ![r] = "samples"]
            /\ status' = status
            /\ pc' = [pc EXCEPT ![r] = "respond"]
    /\ trace' = Logged(r, "build_graph_data")
    /\ UNCHANGED <<now, loop, rateVars, user, image, t_now, latex, confidence,
                   solution, steps, before, seen, sanVars, solverVars,
                   samplerVars, managerVars>>

\* graph_data = None
\* try: graph_data = solver_service.build_graph_data(latex)
\* except Exception: graph_data = None
build_graph_data(r) ==
    /\ pc[r] = "graph"
    /\ runnable(r)
    /\ graph_data' = [graph_data EXCEPT ![r] =
                          IF build_graph_data_result(latex[r]) = "raise"
                          THEN "None" ELSE "samples"]
    /\ trace' = Logged(r, "build_graph_data")
    /\ pc' = [pc EXCEPT ![r] = "respond"]
    /\ UNCHANGED <<now, loop, rateVars, user, image, t_now, latex, confidence,
                   solution, steps, status, before, seen, sanVars, solverVars,
                   samplerVars, managerVars>>

\* return SolveResponse(...)
respond(r) ==
    /\ pc[r] = "respond"
    /\ runnable(r)
    /\ status' = [status EXCEPT ![r] = 200]
    /\ pc' = [pc EXCEPT ![r] = "done"]
    /\ UNCHANGED <<now, loop, rateVars, user, image, t_now, latex, confidence,
                   solution, steps, graph_data, trace, before, seen, sanVars,
                   solverVars, samplerVars, managerVars>>

\* The handler has returned or raised: it leaves the event loop and the
\* request is discarded.
finish(r) ==
    /\ pc[r] = "done"
    /\ runnable(r)
    /\ loop' = 0
    /\ pc' = [pc EXCEPT ![r] = "idle"]
    /\ user' = [user EXCEPT ![r] = "none"]
    /\ image' = [image EXCEPT ![r] = "none"]
    /\ t_now' = [t_now EXCEPT ![r] = 0]
    /\ latex' = [latex EXCEPT ![r] = <<>>]
    /\ confidence' = [confidence EXCEPT ![r] = <<0, 1>>]
    /\ solution' = [solution EXCEPT ![r] = "none"]
    /\ steps' = [steps EXCEPT ![r] = "none"]
    /\ graph_data' = [graph_data EXCEPT ![r] = "None"]
    /\ status' = [status EXCEPT ![r] = 0]
    /\ trace' = [trace EXCEPT ![r] = <<>>]
    /\ before' = [before EXCEPT ![r] = <<>>]
    /\ seen' = [seen EXCEPT ![r] = 0]
    /\ UNCHANGED <<now, rateVars, sanVars, solverVars, samplerVars,
                   managerVars>>

Next ==
    \/ Tick
    \/ \E r \in Requests : Arrive(r)
    \/ \E r \in Requests : solve_equation_begin(r)
    \/ \E r \in Requests : rate_limit_setdefault(r)
    \/ \E r \in Requests : rate_limit_purge(r)
    \/ \E r \in Requests : rate_limit_check(r)
    \/ \E r \in Requests : rate_limit_append(r)
    \/ \E r \in Requests : check_image(r)
    \/ \E r \in Requests : extract_math_from_image(r)
    \/ \E r \in Requests : check_latex(r)
    \/ \E r \in Requests : check_forbidden(r)
    \/ \E r \in Requests : solve_generic(r)
    \/ \E r \in Requests : build_graph_data(r)
    \/ \E r \in Requests : respond(r)
    \/ \E r \in Requests : finish(r)

Spec == Init /\ [][Next]_vars

\* --------------------------------------------- the sanitizer on its own
\* The recognizer hands any raw text to _clean_math_text; the endpoint then
\* applies its forbidden-token check to the result.
endpointVars == <<now, loop, rateVars, reqVars>>

SanitizerInit ==
    /\ EndpointInit
    /\ raw \in TextsOf(MaxFrags)
    /\ out = <<>>
    /\ out2 = <<>>
    /\ rejected = FALSE
    /\ stage = "raw"
    /\ conf = <<0, 1>>
    /\ system_dispatch = FALSE
    /\ resp_conf = <<0, 1>>
    /\ SolverOff
    /\ SamplerOff
    /\ ManagerInit

\* cleaned_text = self._clean_math_text(text)
sanitizer_clean ==
    /\ stage = "raw"
    /\ out' = clean_math_text(raw)
    /\ conf' = calculate_confidence(raw, clean_math_text(raw))
    /\ stage' = "cleaned"
    /\ UNCHANGED <<raw, out2, rejected, system_dispatch, resp_conf,
                   endpointVars, solverVars, samplerVars, managerVars>>

\* the forbidden-token check of solve_equation on the cleaned text
sanitizer_check ==
    /\ stage = "cleaned"
    /\ rejected' = HasForbidden(out)
    /\ stage' = "checked"
    /\ UNCHANGED <<raw, out, out2, conf, system_dispatch, resp_conf,
                   endpointVars, solverVars, samplerVars, managerVars>>

\* _clean_math_text applied to its own output
sanitizer_clean_again ==
    /\ stage = "checked"
    /\ out2' = clean_math_text(out)
    /\ stage' = "recleaned"
    /\ UNCHANGED <<raw, out, rejected, conf, system_dispatch, resp_conf,
                   endpointVars, solverVars, samplerVars, managerVars>>

\* A cleaned text that is neither empty nor rejected goes to solve_generic,
\* which takes the System branch or not, and the response carries the
\* recognizer's confidence: SolveResponse(..., confidence=confidence).
sanitizer_respond ==
    /\ stage = "checked"
    /\ ~rejected
    /\ out # <<>>
    /\ system_dispatch' = is_system(out)
    /\ resp_conf' = conf
    /\ stage' = "responded"
    /\ UNCHANGED <<raw, out, out2, rejected, conf, endpointVars, solverVars,
                   samplerVars, managerVars>>

SanitizerNext ==
    \/ sanitizer_clean
    \/ sanitizer_check
    \/ sanitizer_clean_again
    \/ sanitizer_respond

SanitizerSpec == SanitizerInit /\ [][SanitizerNext]_vars

\* ------------------------------------------- solve_generic on its own
\* solve_generic is called with any text over the signs below, of at most
\* MaxExprLen signs, that has no "==" and no "()".
SolverFragments == {"x", "y", "1", "+", "=", ",", ";", "(", ")", "["}

RECURSIVE SolverTextsOf(_)
SolverTextsOf(n) ==
    IF n = 0 THEN {<<>>}
    ELSE LET shorter == SolverTextsOf(n - 1)
         IN  shorter \cup {t \o <<f>> : t \in shorter, f \in SolverFragments}

SolverTexts ==
    {t \in SolverTextsOf(MaxExprLen) :
         /\ ~Contains(t, <<"=", "=">>)
         /\ ~Contains(t, <<"(", ")">>)}

\* Two-part systems: each part is a chain of at most MaxSides sides joined
\* by '=', a side is a name, a number or a lone sign.
SideTexts == {<<"x">>, <<"y">>, <<"1">>, <<"+">>}

RECURSIVE PartsOf(_)
PartsOf(n) ==
    IF n = 1 THEN SideTexts
    ELSE LET shorter == PartsOf(n - 1)
         IN  shorter \cup {p \o <<"=">> \o t : p \in shorter, t \in SideTexts}

SystemTexts ==
    {p \o <<sep>> \o q :
         p \in PartsOf(MaxSides), q \in PartsOf(MaxSides), sep \in {",", ";"}}

SolverInit ==
    /\ EndpointInit
    /\ SanitizerOff
    /\ SamplerOff
    /\ ManagerInit
    /\ solver_expression \in SolverTexts \cup SystemTexts
    /\ solver_result = solve_error("none", <<>>)
    /\ solver_stage = "called"

\* solve_generic(expression) returns
solver_return ==
    /\ solver_stage = "called"
    /\ solver_result' \in solve_generic_results(solver_expression)
    /\ solver_stage' = "returned"
    /\ UNCHANGED <<solver_expression, endpointVars, sanVars, samplerVars,
                   managerVars>>

SolverNext == solver_return

SolverSpec == SolverInit /\ [][SolverNext]_vars

\* ================================================================ claims
\* Number of admitted calls of identity u with a timestamp in [lo, hi].
AdmittedIn(u, lo, hi) ==
    Cardinality({i \in DOMAIN admitted[u] :
                     lo <= admitted[u][i] /\ admitted[u][i] <= hi})

\* Number of occurrences of t in the list b.
Count(b, t) == Cardinality({i \in DOMAIN b : b[i] = t})

\* Positions of solve_equation inside _rate_limit.
RateLimitSection == {"rl_setdefault", "rl_purge", "rl_check", "rl_append"}
\* Positions of solve_equation after _rate_limit has returned or raised.
AfterRateLimit == {"check_image", "ocr", "check_latex", "check_forbidden",
                   "solve", "graph", "respond", "done"}
\* The admission decision of request r has been taken.
Decided(r) == pc[r] \in AfterRateLimit \cup {"rl_append"}

\* Stages of the pipeline behind the admission gate.
PipelineStages == {"extract_math_from_image", "forbidden_passed",
                   "forbidden_rejected", "solve_generic", "build_graph_data"}

\* The forbidden tokens, as the specification lists them.
ForbiddenTokens == {
    <<"_", "_">>,
    <<"i", "m", "p", "o", "r", "t">>,
    <<"e", "x", "e", "c">>,
    <<"l", "a", "m", "b", "d", "a">>
}
ContainsForbiddenToken(text) == \E tok \in ForbiddenTokens : Contains(text, tok)

\* The whitelist alphabet of a cleaned expression.
WhitelistAlphabet ==
    Digits \cup {"+", "-", "*", "/", "=", "^", "(", ")", ".", ","}
      \cup Range(MathSignSeq) \cup Range(LowerSeq) \cup Range(UpperSeq)

\* C1: for every identity, every window of duration WINDOW_SECONDS holds at
\* most MAX_CALLS admitted calls, and a call made while MAX_CALLS admitted
\* calls of its identity are still inside the window is denied with 429.
C1_AtMostNAdmittedPerWindow ==
    /\ \A u \in Identities, s \in 0..MaxTime :
           AdmittedIn(u, s, s + WINDOW_SECONDS) <= MAX_CALLS
    /\ \A r \in Requests :
           (/\ Decided(r)
            /\ Cardinality({i \in 1..seen[r] :
                   admitted[user[r]][i] >= t_now[r] - WINDOW_SECONDS})
                 >= MAX_CALLS)
           => (pc[r] = "done" /\ status[r] = 429)

\* A call is denied after the identity's window has already slid once.
C1_Witness ==
    \E r \in Requests :
        /\ pc[r] = "done" /\ status[r] = 429
        /\ Len(admitted[user[r]]) > MAX_CALLS

\* C2: a denied call leaves the caller's timestamp list exactly as it was
\* before the call: nothing appended, nothing removed.
C2_DeniedCallLeavesWindow ==
    \A r \in Requests :
        (pc[r] = "done" /\ status[r] = 429)
        => before[r] = <<bucket[user[r]]>>

\* A call is denied against a full list it did not change.
C2_Witness ==
    \E r \in Requests :
        /\ pc[r] = "done" /\ status[r] = 429
        /\ before[r] # <<>>
        /\ Len(before[r][1]) = MAX_CALLS
        /\ t_now[r] \notin Range(bucket[user[r]])

\* C3: after every _rate_limit call, admitted or denied, the caller's list
\* holds at most MAX_CALLS entries, all of them >= now - WINDOW_SECONDS for
\* the call's now; and entries leave a list only in the purge step of a
\* _rate_limit call.
C3_AfterCall ==
    \A r \in Requests :
        pc[r] \in AfterRateLimit
        => /\ Len(bucket[user[r]]) <= MAX_CALLS
           /\ \A i \in DOMAIN bucket[user[r]] :
                  bucket[user[r]][i] >= t_now[r] - WINDOW_SECONDS

C3_OnlyPurgeRemoves ==
    (\E u \in DOMAIN bucket : \E t \in Range(bucket[u]) :
         Count(bucket'[u], t) < Count(bucket[u], t))
    => \E r \in Requests : pc[r] = "rl_purge" /\ pc'[r] = "rl_check"

C3_PrunedOnEveryCall == [](C3_AfterCall) /\ [][C3_OnlyPurgeRemoves]_vars

\* A call has returned after its purge removed an aged timestamp.
C3_Witness ==
    \E r \in Requests :
        /\ pc[r] \in AfterRateLimit
        /\ before[r] # <<>>
        /\ \E i \in DOMAIN before[r][1] :
               before[r][1][i] < t_now[r] - WINDOW_SECONDS
        /\ bucket[user[r]] # <<>>

\* C4: two requests are never inside the purge-count-append step at the
\* same time, and no interleaving of requests admits more than MAX_CALLS
\* calls of one identity inside a window.
C4_MutualExclusion ==
    /\ \A r1, r2 \in Requests :
           (r1 # r2) => ~(pc[r1] \in RateLimitSection
                            /\ pc[r2] \in RateLimitSection)
    /\ \A r \in Requests :
           pc[r] = "rl_append" => Len(bucket[user[r]]) < MAX_CALLS
    /\ \A u \in Identities, s \in 0..MaxTime :
           Cardinality({i \in DOMAIN admitted[u] :
                            admitted[u][i] \in s..(s + WINDOW_SECONDS)})
             <= MAX_CALLS

\* A request has counted MAX_CALLS - 1 entries and is about to append while
\* another request of the same identity waits for its turn.
C4_Witness ==
    \E r1, r2 \in Requests :
        /\ r1 # r2
        /\ user[r1] = user[r2]
        /\ pc[r1] = "rl_append"
        /\ Len(bucket[user[r1]]) = MAX_CALLS - 1
        /\ pc[r2] = "pending"

\* C5: a pipeline stage is executed only after the request was admitted,
\* and a denied request executes none.
C5_AdmissionBeforePipeline ==
    \A r \in Requests :
        /\ \A i \in DOMAIN trace[r] :
               trace[r][i] \in PipelineStages
               => (i > 1 /\ trace[r][1] = "admitted")
        /\ status[r] = 429 => trace[r] = <<"denied">>

\* A request carrying a decodable image was denied and ran no stage.
C5_Witness ==
    \E r \in Requests :
        /\ pc[r] = "done" /\ status[r] = 429
        /\ image[r] = "image"
        /\ trace[r] = <<"denied">>

\* C6: a timestamp leaves an identity's list only by the purge of a later
\* _rate_limit call of that identity, when it is older than that call's
\* window; no other step of the endpoint removes it.
C6_NoRefundStep ==
    \A u \in DOMAIN bucket : \A t \in Range(bucket[u]) :
        \/ Count(bucket'[u], t) >= Count(bucket[u], t)
        \/ \E r \in Requests :
               /\ pc[r] = "rl_purge" /\ pc'[r] = "rl_check"
               /\ user[r] = u
               /\ t < t_now[r] - WINDOW_SECONDS

C6_SlotNotRefunded == [][C6_NoRefundStep]_vars

\* An admitted request failed and its timestamp is still in the list.
C6_Witness ==
    \E r \in Requests :
        /\ pc[r] = "done" /\ status[r] \in {400, 422}
        /\ t_now[r] \in Range(bucket[user[r]])

\* C8: solve_generic and build_graph_data are called only after the
\* forbidden-token check has passed, on a text without forbidden token;
\* a rejection is the last stage of its request.
C8_ForbiddenNeverSolved ==
    \A r \in Requests : \A i \in DOMAIN trace[r] :
        /\ trace[r][i] \in {"solve_generic", "build_graph_data"}
           => /\ ~ContainsForbiddenToken(latex[r])
              /\ \E j \in 1..(i - 1) : trace[r][j] = "forbidden_passed"
        /\ trace[r][i] = "forbidden_rejected"
           => (i = Len(trace[r]) /\ pc[r] = "done" /\ status[r] = 400)

\* A text with a forbidden token was rejected with 400.
C8_Witness ==
    \E r \in Requests :
        /\ pc[r] = "done" /\ status[r] = 400
        /\ ContainsForbiddenToken(latex[r])
        /\ trace[r][Len(trace[r])] = "forbidden_rejected"

\* C7: every raw text that contains a forbidden token is rejected by the
\* forbidden-token check applied to its cleaned form.
C7_ForbiddenAlwaysRejected ==
    (stage \in {"checked", "recleaned"} /\ ContainsForbiddenToken(raw))
    => rejected

\* C9: a cleaned expression consists of whitelist characters only.
C9_OnlyWhitelistCharacters ==
    stage \in {"cleaned", "checked", "recleaned"}
    => Range(out) \subseteq WhitelistAlphabet

\* C10: cleaning a cleaned text changes nothing.
C10_Idempotent ==
    stage = "recleaned" => out2 = out

\* ------------------------------------------------ failures of the stages
Stages(r) == Range(trace[r])

\* The solve stage of the request ran and the algebra engine raised.
SolveFailed(r) == "solve_generic" \in Stages(r) /\ solution[r] = "Error"

\* The solve stage of the request ran and gave a solution.
SolveSucceeded(r) == "solve_generic" \in Stages(r) /\ solution[r] = "solved"

\* C11: a request whose solve failed ends with status 422, never with a
\* success response.
C11_SolverFailureIsUnprocessable ==
    \A r \in Requests :
        (pc[r] = "done" /\ SolveFailed(r)) => status[r] = 422

\* C12: graph sampling is never run for a request whose solve failed.
C12_NoGraphAfterFailedSolve ==
    \A r \in Requests :
        SolveFailed(r) => "build_graph_data" \notin Stages(r)

\* C13: an admitted request whose payload does not decode ends with the
\* bad-input status 400, not with the 422 of an empty recognition.
C13_UndecodableIsBadInput ==
    \A r \in Requests :
        (/\ pc[r] = "done"
         /\ image[r] = "undecodable"
         /\ "extract_math_from_image" \in Stages(r))
        => status[r] = 400

\* C14: when build_graph_data raises after a successful solve, the request
\* still ends with status 200, its graph_data is absent, and neither the
\* graph stage nor the response changes expression, solution, steps or
\* confidence.
C14_GraphFailureSwallowed ==
    \A r \in Requests :
        (/\ SolveSucceeded(r)
         /\ "build_graph_data" \in Stages(r)
         /\ build_graph_data_result(latex[r]) = "raise")
        => /\ graph_data[r] = "None"
           /\ pc[r] \in {"respond", "done"}
           /\ pc[r] = "done" => status[r] = 200

C14_GraphStepKeepsResult ==
    \A r \in Requests :
        pc[r] \in {"graph", "respond"}
        => /\ latex'[r] = latex[r]
           /\ solution'[r] = solution[r]
           /\ steps'[r] = steps[r]
           /\ confidence'[r] = confidence[r]

C14_GraphFailureNeverFails ==
    [](C14_GraphFailureSwallowed) /\ [][C14_GraphStepKeepsResult]_vars

\* A solved request whose graph sampling raised got its success response.
C14_Witness ==
    \E r \in Requests :
        /\ pc[r] = "done" /\ status[r] = 200
        /\ SolveSucceeded(r)
        /\ "build_graph_data" \in Stages(r)
        /\ build_graph_data_result(latex[r]) = "raise"
        /\ graph_data[r] = "None"

\* C15: an exception of the algebra engine never leaves solve_generic and
\* never ends a request as an internal error: once the solve stage has run
\* the handler holds a result pair.
C15_SolverExceptionCaught ==
    \A r \in Requests :
        /\ status[r] # 500
        /\ "solve_generic_raised" \notin Stages(r)
        /\ pc[r] \in {"graph", "respond"}
           => solution[r] \in {"solved", "Error"}

\* The algebra engine raised inside solve_generic and the handler went on.
C15_Witness ==
    \E r \in Requests : pc[r] = "graph" /\ SolveFailed(r)

\* --------------------------------------- the "y" list of build_graph_data
\* What the lambdified function gives at one grid point: a finite number
\* (negative, zero, positive), nan where the expression is undefined, inf
\* where it is unbounded.  numpy signals neither by an exception.
SampleValues == {"-1.0", "0.0", "1.0", "nan", "inf"}

\* bool(sp.Float(v)): a Float is true when it is not zero; sp.Float gives
\* the constants nan and oo for nan and inf, and these are true.
Float_truthy(v) == v # "0.0"

\* float(v) if sp.Float(v) else None
sample_y(v) == IF Float_truthy(v) THEN v ELSE "None"

SamplerInit ==
    /\ EndpointInit
    /\ SanitizerOff
    /\ SolverOff
    /\ ManagerInit
    /\ ys \in UNION {[1..n -> SampleValues] : n \in 1..MaxSamples}
    /\ graph_y = <<>>
    /\ sampler_stage = "evaluated"

\* "y": [float(v) if sp.Float(v) else None for v in ys]
sampler_return ==
    /\ sampler_stage = "evaluated"
    /\ graph_y' = [i \in DOMAIN ys |-> sample_y(ys[i])]
    /\ sampler_stage' = "returned"
    /\ UNCHANGED <<ys, endpointVars, sanVars, solverVars, managerVars>>

SamplerNext == sampler_return

SamplerSpec == SamplerInit /\ [][SamplerNext]_vars

\* C21: the y of a sample point is absent exactly when the evaluation at
\* that point is undefined or not finite; a finite value, zero included,
\* is carried as it is.
C21_AbsentIffUndefined ==
    sampler_stage = "returned"
    => \A i \in DOMAIN ys :
           /\ graph_y[i] = "None" <=> ys[i] \in {"nan", "inf"}
           /\ ys[i] \in {"-1.0", "0.0", "1.0"} => graph_y[i] = ys[i]

\* ------------------------------------------------- the window, continued
Denied(r) == pc[r] = "done" /\ status[r] = 429

\* The caller's list as it was when the call was made.
OwnList(r) == IF before[r] = <<>> THEN <<>> ELSE before[r][1]

\* Admitted calls of the caller's identity made before this call with a
\* timestamp in [t_now - WINDOW_SECONDS, t_now].
RecentAdmitted(r) ==
    {i \in 1..seen[r] :
         /\ admitted[user[r]][i] >= t_now[r] - WINDOW_SECONDS
         /\ admitted[user[r]][i] <= t_now[r]}

\* C24: a call is admitted if and only if fewer than MAX_CALLS admitted
\* calls of its identity have a timestamp in the trailing window; a call
\* made more than WINDOW_SECONDS after the oldest retained timestamp is
\* admitted, so no identity stays locked out.
C24_AdmittedIffWindowNotFull ==
    \A r \in Requests :
        Decided(r)
        => /\ Denied(r) <=> Cardinality(RecentAdmitted(r)) >= MAX_CALLS
           /\ (OwnList(r) # <<>>
               /\ t_now[r] > OwnList(r)[1] + WINDOW_SECONDS)
              => ~Denied(r)

\* A call is admitted although the caller's list was full when it was made.
C24_Witness ==
    \E r \in Requests :
        /\ pc[r] = "check_image"
        /\ Len(OwnList(r)) = MAX_CALLS
        /\ t_now[r] > OwnList(r)[1] + WINDOW_SECONDS

\* C25: a timestamp exactly WINDOW_SECONDS old survives pruning and counts:
\* with MAX_CALLS admitted calls at t_now - WINDOW_SECONDS the call is
\* denied, and with every earlier call older than that it is admitted.
C25_BoundaryInclusive ==
    \A r \in Requests :
        /\ pc[r] \in {"rl_check", "rl_append"} \cup AfterRateLimit
           => Count(bucket[user[r]], t_now[r] - WINDOW_SECONDS)
                >= Count(OwnList(r), t_now[r] - WINDOW_SECONDS)
        /\ Decided(r)
           => /\ Count(OwnList(r), t_now[r] - WINDOW_SECONDS) >= MAX_CALLS
                 => Denied(r)
              /\ (\A i \in DOMAIN OwnList(r) :
                      OwnList(r)[i] < t_now[r] - WINDOW_SECONDS)
                 => ~Denied(r)

\* A call is denied by timestamps that are all exactly WINDOW_SECONDS old.
C25_Witness ==
    \E r \in Requests :
        /\ Denied(r)
        /\ Len(OwnList(r)) = MAX_CALLS
        /\ \A i \in DOMAIN OwnList(r) :
               OwnList(r)[i] = t_now[r] - WINDOW_SECONDS

\* C26: a _rate_limit call changes the list of no identity but the
\* caller's, and its outcome is decided by the caller's own list alone.
C26_OwnListDecides ==
    \A r \in Requests :
        Decided(r)
        => (Denied(r)
            <=> Cardinality({i \in DOMAIN OwnList(r) :
                    OwnList(r)[i] >= t_now[r] - WINDOW_SECONDS})
                  >= MAX_CALLS)

C26_OthersUntouched ==
    \A r \in Requests :
        (pc[r] \in RateLimitSection /\ pc'[r] # pc[r])
        => \A u \in Identities \ {user[r]} :
               /\ u \in DOMAIN bucket' <=> u \in DOMAIN bucket
               /\ u \in DOMAIN bucket => bucket'[u] = bucket[u]

C26_IdentitiesIsolated ==
    [](C26_OwnListDecides) /\ [][C26_OthersUntouched]_vars

\* A call has passed the limiter while another identity has timestamps, one
\* of them older than the call's window.
C26_Witness ==
    \E r \in Requests :
        /\ pc[r] = "check_image"
        /\ \E u \in DOMAIN bucket \ {user[r]} :
               \E i \in DOMAIN bucket[u] :
                   bucket[u][i] < t_now[r] - WINDOW_SECONDS

\* ------------------------------------------------- blocking by the solver
\* C23: while a request is inside solve_generic, a waiting request of
\* another caller can start: the solver does not hold the event loop.
C23_SolverDoesNotBlock ==
    \A r \in Requests : \A q \in Requests \ {r} :
        (pc[r] = "solve" /\ pc[q] = "pending") => runnable(q)

\* ------------------------------------------------------------ confidence
\* The ratio c = <<numerator, denominator>> lies in [0, 100].
InPercentRange(c) == c[2] > 0 /\ 0 <= c[1] /\ c[1] <= 100 * c[2]

\* C22: the confidence computed for a raw text and its cleaned form lies in
\* [0, 100], and the response carries that confidence unchanged.
C22_ConfidenceInRange ==
    /\ stage \in {"cleaned", "checked", "recleaned", "responded"}
       => InPercentRange(conf)
    /\ stage = "responded"
       => (resp_conf = conf /\ InPercentRange(resp_conf))

\* A response carries a positive confidence for a text that cleaning made
\* longer.
C22_Witness ==
    /\ stage = "responded"
    /\ Len(out) > Len(raw)
    /\ resp_conf[1] > 0

\* ------------------------------------------- what cleaning hands onward
Cleaned == stage \in {"cleaned", "checked", "recleaned", "responded"}

\* C27: a cleaned text has no letter x, and the text handed to the solver
\* has no name with an x in it.
C27_NoLetterX ==
    /\ Cleaned => "x" \notin Range(out)
    /\ stage = "responded"
       => \A name \in Range(Names(out)) : "x" \notin Range(name)

\* A raw text with an x was cleaned and handed to the solver.
C27_Witness ==
    /\ stage = "responded"
    /\ "x" \in Range(raw)
    /\ "*" \in Range(out)

\* C28: a recognized text with a comma that is not rejected is dispatched
\* as a System, whether or not it has a '['.
C28_CommaMeansSystem ==
    (stage = "responded" /\ "," \in Range(raw)) => system_dispatch

\* A raw text with a comma and a '[' was dispatched as a System.
C28_Witness ==
    /\ stage = "responded"
    /\ "," \in Range(raw)
    /\ "[" \in Range(raw)
    /\ "[" \notin Range(out)
    /\ system_dispatch

\* ----------------------------------------------- classification, dispatch
Returned == solver_stage = "returned"
Variants == {"Expression", "Equation", "System"}

\* Number of brackets open before position i of the text.
RECURSIVE Depth(_, _)
Depth(text, i) ==
    IF i <= 1 THEN 0
    ELSE LET d == Depth(text, i - 1)
             c == text[i - 1]
         IN  IF c \in {"(", "[", "{"} THEN d + 1
             ELSE IF c \in {")", "]", "}"} /\ d > 0 THEN d - 1
             ELSE d

HasSemicolon(text) == \E i \in DOMAIN text : text[i] = ";"

\* The text has a semicolon, or a comma outside of bracket nesting.
HasTopLevelSeparator(text) ==
    \E i \in DOMAIN text :
        \/ text[i] = ";"
        \/ (text[i] = "," /\ Depth(text, i) = 0)

HasSeparator(text) == \E i \in DOMAIN text : text[i] \in {",", ";"}

EqualsCount(text) == Cardinality({i \in DOMAIN text : text[i] = "="})

\* The first name of the text from the left, x when it has none.
FirstFreeVariable(text) ==
    IF Names(text) = <<>> THEN <<"x">> ELSE Names(text)[1]

\* C16: every text is given exactly one of the variants Expression,
\* Equation, System, and solve_generic never ends in an uncaught fault.
C16_ClassifierTotal ==
    Returned
    => (solver_result.branch \in Variants /\ ~solver_result.fault)

\* C16, amended: solve_generic never ends in an uncaught fault; a text it
\* solves was given exactly one variant; a text is left without variant
\* only when it is not a system and does not parse, and then the error
\* pair is returned.
C16_ClassifierTotalOnParsed ==
    Returned
    => /\ ~solver_result.fault
       /\ solver_result.branch \in Variants \cup {"none"}
       /\ solver_result.solution = "solved"
          => solver_result.branch \in Variants
       /\ solver_result.branch = "none"
          => /\ solver_result.solution = "Error"
             /\ ~Parses(solver_expression)
             /\ ~HasSemicolon(solver_expression)

\* A text that does not parse came back with the error pair, unclassified.
C16_Witness ==
    /\ Returned
    /\ solver_expression # <<>>
    /\ solver_result.branch = "none"
    /\ solver_result.solution = "Error"

\* C17: a text is dispatched as a System exactly when it has a semicolon
\* or a comma outside of bracket nesting.
C17_SystemIffTopLevelSeparator ==
    Returned
    => (solver_result.branch = "System"
        <=> HasTopLevelSeparator(solver_expression))

\* C18: a text "L=R" without separator, with well-formed sides, is
\* classified as Equation and solved.
C18_SingleEqualityIsEquation ==
    (/\ Returned
     /\ ~HasSeparator(solver_expression)
     /\ EqualsCount(solver_expression) = 1
     /\ \A i \in 1..2 : Parses(Split(solver_expression, "=")[i]))
    => /\ solver_result.branch = "Equation"
       /\ solver_result.solution = "solved"

\* C19: a text without equality sign that is solved is solved as the
\* equation text = 0, and a part of a solved System without equality sign
\* is handed to the solver as an expression that stands for part = 0.
C19_NoEqualityMeansEqualsZero ==
    (Returned /\ solver_result.solution = "solved")
    => /\ (~HasSeparator(solver_expression)
           /\ EqualsCount(solver_expression) = 0)
          => /\ solver_result.branch = "Expression"
             /\ solver_result.eqs =
                    <<[lhs |-> solver_expression, rhs |-> <<"0">>,
                       form |-> "Eq"]>>
       /\ solver_result.branch = "System"
          => \A k \in DOMAIN solver_result.parts :
                 EqualsCount(solver_result.parts[k]) = 0
                 => /\ solver_result.eqs[k].lhs = solver_result.parts[k]
                    /\ solver_result.eqs[k].rhs = <<"0">>
                    /\ solver_result.eqs[k].form = "bare"

\* A text without equality sign was solved as an Expression.
C19_Witness ==
    /\ Returned
    /\ solver_result.solution = "solved"
    /\ solver_result.branch = "Expression"
    /\ EqualsCount(solver_expression) = 0
    /\ Names(solver_expression) # <<>>

\* C20: for an Expression or an Equation the variable solved for is the
\* first free variable of the text from the left, x when there is none.
C20_SolvesForFirstVariable ==
    (Returned /\ solver_result.branch \in {"Expression", "Equation"})
    => solver_result.solve_for = FirstFreeVariable(solver_expression)

\* The first two sides of a part, the part itself when it has no '='.
LeadingSides(p) ==
    IF EqualsCount(p) = 0 THEN <<p>>
    ELSE <<Split(p, "=")[1], Split(p, "=")[2]>>

\* C29: in the System branch a part with more than one equality sign
\* becomes the equation of its first two sides; what follows the second
\* sign is dropped, and the system is solved whenever the leading sides of
\* its parts parse.
C29_ExtraSidesDropped ==
    (Returned /\ solver_result.branch = "System")
    => /\ (\A k \in DOMAIN solver_result.parts :
              \A i \in DOMAIN LeadingSides(solver_result.parts[k]) :
                  Parses(LeadingSides(solver_result.parts[k])[i]))
          => solver_result.solution = "solved"
       /\ solver_result.solution = "solved"
          => \A k \in DOMAIN solver_result.parts :
                 EqualsCount(solver_result.parts[k]) >= 2
                 => solver_result.eqs[k] =
                        [lhs |-> Split(solver_result.parts[k], "=")[1],
                         rhs |-> Split(solver_result.parts[k], "=")[2],
                         form |-> "Eq"]

\* A system was solved although the third side of a part does not parse.
C29_Witness ==
    /\ Returned
    /\ solver_result.branch = "System"
    /\ solver_result.solution = "solved"
    /\ \E k \in DOMAIN solver_result.parts :
           /\ EqualsCount(solver_result.parts[k]) = 2
           /\ ~Parses(Split(solver_result.parts[k], "=")[3])
           /\ solver_result.eqs[k].rhs = Split(solver_result.parts[k], "=")[2]

\* ------------------------------------------------------ ConnectionManager
\* list.remove(x): without the first occurrence of x
RECURSIVE RemoveFirst(_, _)
RemoveFirst(list, x) ==
    IF list = <<>> THEN <<>>
    ELSE IF Head(list) = x THEN Tail(list)
    ELSE <<Head(list)>> \o RemoveFirst(Tail(list), x)

\* del d[key]
DelKey(d, key) == [k \in DOMAIN d \ {key} |-> d[k]]

\* d[key] = value
SetKey(d, key, value) ==
    [k \in DOMAIN d \cup {key} |-> IF k = key THEN value ELSE d[k]]

\* Number of sockets in the registry.
RegistrySize ==
    LET RECURSIVE Sum(_)
        Sum(K) == IF K = {} THEN 0
                  ELSE LET k == CHOOSE k \in K : TRUE
                       IN  Len(active_connections[k]) + Sum(K \ {k})
    IN  Sum(DOMAIN active_connections)

ManagerSpecInit ==
    /\ EndpointInit
    /\ SanitizerOff
    /\ SolverOff
    /\ SamplerOff
    /\ ManagerInit

\* connect is called and suspends in 'await websocket.accept()'.
connect_begin(ws, pid) ==
    /\ <<ws, pid>> \notin accepting
    /\ accepting' = accepting \cup {<<ws, pid>>}
    /\ last_call' = <<"connect", ws, pid, "accepting">>
    /\ UNCHANGED <<active_connections, registered, endpointVars, sanVars,
                   solverVars, samplerVars>>

\* accept() raises (the client is gone): connect ends before it registers.
connect_accept_raises(ws, pid) ==
    /\ <<ws, pid>> \in accepting
    /\ accepting' = accepting \ {<<ws, pid>>}
    /\ last_call' = <<"connect", ws, pid, "raised">>
    /\ UNCHANGED <<active_connections, registered, endpointVars, sanVars,
                   solverVars, samplerVars>>

\* accept() has returned:
\* if project_id not in self.active_connections:
\*     self.active_connections[project_id] = []
\* self.active_connections[project_id].append(websocket)
connect_register(ws, pid) ==
    /\ <<ws, pid>> \in accepting
    /\ RegistrySize < MaxConnections
    /\ accepting' = accepting \ {<<ws, pid>>}
    /\ active_connections' =
           SetKey(active_connections, pid,
                  Append(IF pid \in DOMAIN active_connections
                         THEN active_connections[pid] ELSE <<>>, ws))
    /\ registered' = [registered EXCEPT ![pid] = @ + 1]
    /\ last_call' = <<"connect", ws, pid, "registered">>
    /\ UNCHANGED <<endpointVars, sanVars, solverVars, samplerVars>>

\* Variant: the key of a project is kept when its list becomes empty.
disconnect_keeping_key(ws, pid) ==
    /\ IF pid \notin DOMAIN active_connections
       THEN /\ UNCHANGED <<active_connections, registered>>
            /\ last_call' = <<"disconnect", ws, pid, "absent">>
       ELSE IF ws \notin Range(active_connections[pid])
       THEN /\ UNCHANGED <<active_connections, registered>>
            /\ last_call' = <<"disconnect", ws, pid, "ValueError">>
       ELSE /\ active_connections' =
                   SetKey(active_connections, pid,
                          RemoveFirst(active_connections[pid], ws))
            /\ registered' = [registered EXCEPT ![pid] = @ - 1]
            /\ last_call' = <<"disconnect", ws, pid, "removed">>
    /\ UNCHANGED <<accepting, endpointVars, sanVars, solverVars, samplerVars>>

\* if project_id in self.active_connections:
\*     self.active_connections[project_id].remove(websocket)
\*     if not self.active_connections[project_id]:
\*         del self.active_connections[project_id]
\* remove raises ValueError when the socket is not in the list, and the
\* registry is left as it was.
disconnect(ws, pid) ==
    /\ IF pid \notin DOMAIN active_connections
       THEN /\ UNCHANGED <<active_connections, registered>>
            /\ last_call' = <<"disconnect", ws, pid, "absent">>
       ELSE IF ws \notin Range(active_connections[pid])
       THEN /\ UNCHANGED <<active_connections, registered>>
            /\ last_call' = <<"disconnect", ws, pid, "ValueError">>
       ELSE LET rest == RemoveFirst(active_connections[pid], ws)
            IN  /\ active_connections' =
                       IF rest = <<>> THEN DelKey(active_connections, pid)
                       ELSE SetKey(active_connections, pid, rest)
                /\ registered' = [registered EXCEPT ![pid] = @ - 1]
                /\ last_call' = <<"disconnect", ws, pid, "removed">>
    /\ UNCHANGED <<accepting, endpointVars, sanVars, solverVars, samplerVars>>

ManagerNext ==
    \/ \E ws \in Sockets, pid \in ProjectIds : connect_begin(ws, pid)
    \/ \E ws \in Sockets, pid \in ProjectIds : connect_accept_raises(ws, pid)
    \/ \E ws \in Sockets, pid \in ProjectIds : connect_register(ws, pid)
    \/ \E ws \in Sockets, pid \in ProjectIds : disconnect(ws, pid)

ManagerSpec == ManagerSpecInit /\ [][ManagerNext]_vars

\* C30: no project id maps to an empty list, and a project id is a key of
\* active_connections exactly while a registration made for it has not
\* been removed by a disconnect.
C30_RegistryConsistent ==
    /\ \A pid \in DOMAIN active_connections :
           active_connections[pid] # <<>>
    /\ \A pid \in ProjectIds :
           pid \in DOMAIN active_connections <=> registered[pid] > 0
    /\ \A pid \in DOMAIN active_connections :
           Len(active_connections[pid]) = registered[pid]

\* The last socket of a project was disconnected and its key is gone, while
\* another project still has sockets.
C30_Witness ==
    /\ Len(last_call) = 4
    /\ last_call[1] = "disconnect"
    /\ last_call[4] = "removed"
    /\ last_call[3] \notin DOMAIN active_connections
    /\ DOMAIN active_connections # {}

====
